---- MODULE Spec2Model ----
(***************************************************************************)
(* String analyzer service (src/server.js): an in-memory, ordered store of *)
(* analyzed strings with creation, exact lookup, structured filtering,     *)
(* natural-language filtering and deletion.  Every request is handled to   *)
(* completion by one synchronous Express callback, so every handler is one *)
(* atomic action.                                                          *)
(*                                                                         *)
(* A JavaScript string is modelled as the sequence of its code units, each *)
(* code unit a one-character TLA+ string.                                  *)
(***************************************************************************)
EXTENDS Integers, Sequences, FiniteSets, TLC

VARIABLES strings, now, req, res

vars == <<strings, now, req, res>>

(***************************************************************************)
(* Bounds of the model.                                                    *)
(***************************************************************************)
\* the store holds at most MaxStore records (the code has no cap)
MaxStore == 2
\* the clock read by new Date() takes the values 0..MaxClock
MaxClock == 1

(***************************************************************************)
(* Strings.                                                                *)
(***************************************************************************)
Range(s) == {s[i] : i \in 1..Len(s)}

\* String.prototype.toLowerCase on one code unit
LowerChar(c) ==
    CASE c = "A" -> "a" [] c = "B" -> "b" [] c = "C" -> "c" [] c = "D" -> "d"
      [] c = "E" -> "e" [] c = "F" -> "f" [] c = "G" -> "g" [] c = "H" -> "h"
      [] c = "I" -> "i" [] c = "J" -> "j" [] c = "K" -> "k" [] c = "L" -> "l"
      [] c = "M" -> "m" [] c = "N" -> "n" [] c = "O" -> "o" [] c = "P" -> "p"
      [] c = "Q" -> "q" [] c = "R" -> "r" [] c = "S" -> "s" [] c = "T" -> "t"
      [] c = "U" -> "u" [] c = "V" -> "v" [] c = "W" -> "w" [] c = "X" -> "x"
      [] c = "Y" -> "y" [] c = "Z" -> "z"
      [] OTHER -> c

toLowerCase(s) == [i \in 1..Len(s) |-> LowerChar(s[i])]

\* s.split('').reverse().join('')
reverse(s) == [i \in 1..Len(s) |-> s[Len(s) + 1 - i]]

\* the characters \s matches and trim() strips
IsSpace(c) == c \in {" ", "\t"}

IsDigit(c) == c \in {"0", "1", "2", "3", "4", "5", "6", "7", "8", "9"}

DigitVal(c) ==
    CASE c = "0" -> 0 [] c = "1" -> 1 [] c = "2" -> 2 [] c = "3" -> 3
      [] c = "4" -> 4 [] c = "5" -> 5 [] c = "6" -> 6 [] c = "7" -> 7
      [] c = "8" -> 8 [] c = "9" -> 9

\* the value of a string of decimal digits (0 for the empty string)
RECURSIVE DigitsValue(_)
DigitsValue(s) ==
    IF Len(s) = 0 THEN 0
    ELSE 10 * DigitsValue(SubSeq(s, 1, Len(s) - 1)) + DigitVal(s[Len(s)])

\* the length of the longest prefix of s made of decimal digits
RECURSIVE DigitPrefixLen(_)
DigitPrefixLen(s) ==
    IF Len(s) = 0 \/ ~IsDigit(s[1]) THEN 0
    ELSE 1 + DigitPrefixLen(Tail(s))

\* s without its leading white space
RECURSIVE TrimStart(_)
TrimStart(s) ==
    IF Len(s) > 0 /\ IsSpace(s[1]) THEN TrimStart(Tail(s)) ELSE s

\* value.trim().split(/\s+/).filter(Boolean).length: the number of maximal
\* runs of non-space characters; the guard for the blank string gives 0 too
wordCount(s) ==
    IF \A i \in 1..Len(s) : IsSpace(s[i]) THEN 0
    ELSE Cardinality({i \in 1..Len(s) :
            /\ ~IsSpace(s[i])
            /\ (i = 1 \/ IsSpace(s[i - 1]))})

\* crypto.createHash('sha256').update(value).digest('hex'): the digest is
\* kept abstract, a tag on the hashed string (no collisions)
sha256(s) == <<"sha256", s>>

(***************************************************************************)
(* The analyzer.  t is the value of the clock when it runs.                *)
(***************************************************************************)
analyzeString(value, t) ==
    [ id         |-> sha256(value),
      value      |-> value,
      properties |->
        [ length                  |-> Len(value),
          is_palindrome           |-> toLowerCase(value) = reverse(toLowerCase(value)),
          unique_characters       |-> Cardinality(Range(value)),
          word_count              |-> wordCount(value),
          sha256_hash             |-> sha256(value),
          character_frequency_map |->
            [c \in Range(value) |->
                Cardinality({i \in 1..Len(value) : value[i] = c})] ],
      created_at |-> t ]

(***************************************************************************)
(* The store.                                                              *)
(***************************************************************************)
\* Array.prototype.findIndex and the leftmost match of a regular
\* expression: the first index at which flags is TRUE, 0 (for -1, or for
\* null) when it is TRUE nowhere
FirstTrue(flags) ==
    IF \E i \in DOMAIN flags : flags[i]
    THEN CHOOSE i \in DOMAIN flags :
            flags[i] /\ \A j \in DOMAIN flags : j < i => ~flags[j]
    ELSE 0

\* findByValue comparing the stored value with the lowercased argument
findByValueLowered(value) ==
    FirstTrue([i \in 1..Len(strings) |-> strings[i].value = toLowerCase(value)])

\* findByValue as an index into strings: the first record whose value is
\* strictly equal to the argument, 0 when find() returns undefined
findByValue(value) ==
    FirstTrue([i \in 1..Len(strings) |-> strings[i].value = value])

\* the predicate of a DELETE handler that folds case on both sides
deleteMatchesFolded(item, stringValue) ==
    toLowerCase(item.value) = toLowerCase(stringValue)

\* the predicate of the findIndex call of the DELETE handler
deleteMatches(item, stringValue) == item.value = stringValue

\* strings.splice(idx): without a count, everything from idx on is removed
spliceToEnd(R, idx) == SubSeq(R, 1, idx - 1)

\* strings.splice(idx, 1)
splice(R, idx) == SubSeq(R, 1, idx - 1) \o SubSeq(R, idx + 1, Len(R))

(***************************************************************************)
(* Requests and responses.  req is the request the last step handled and   *)
(* res the response it sent; both are NoReq / NoRes after a step that      *)
(* handled no request.                                                     *)
(***************************************************************************)
NoReq == [op |-> "none"]
NoRes == [status |-> 0]

Error(code, msg) == [status |-> code, body |-> [error |-> msg]]

\* the strings a client stores, looks up and deletes
sEmpty == <<>>
sLevel == <<"L", "e", "v", "e", "l">>
slevel == <<"l", "e", "v", "e", "l">>
sLEVEL == <<"L", "E", "V", "E", "L">>
sab    == <<"a", "b">>
saSPb  == <<"a", " ", "b">>

Values == {sEmpty, sLevel, slevel, sLEVEL, sab, saSPb}

\* req.body.value: absent, a JSON value that is no string, or a string
BodyValues ==
    {[t |-> "undefined", s |-> <<>>], [t |-> "number", s |-> <<>>]}
        \cup {[t |-> "string", s |-> v] : v \in Values}

\* req.params.string_value: a path segment, never empty
PathValues == Values \ {sEmpty}

\* POST /strings pushing the entry before it looks for a duplicate
PostStringsPushFirst(value) ==
    /\ req' = [op |-> "POST /strings", value |-> value]
    /\ UNCHANGED now
    /\ IF value.t = "undefined"
       THEN /\ res' = Error(400, "Missing value field")
            /\ UNCHANGED strings
       ELSE IF value.t # "string"
       THEN /\ res' = Error(422, "value must be a string")
            /\ UNCHANGED strings
       ELSE /\ Len(strings) < MaxStore
            /\ strings' = Append(strings, analyzeString(value.s, now))
            /\ IF findByValue(value.s) # 0
               THEN res' = Error(409, "String already exists in the system")
               ELSE res' = [status |-> 201, body |-> analyzeString(value.s, now)]

(***************************************************************************)
(* 1) POST /strings                                                        *)
(***************************************************************************)
PostStrings(value) ==
    /\ req' = [op |-> "POST /strings", value |-> value]
    /\ UNCHANGED now
    /\ IF value.t = "undefined"
       THEN /\ res' = Error(400, "Missing value field")
            /\ UNCHANGED strings
       ELSE IF value.t # "string"
       THEN /\ res' = Error(422, "value must be a string")
            /\ UNCHANGED strings
       ELSE IF findByValue(value.s) # 0
       THEN /\ res' = Error(409, "String already exists in the system")
            /\ UNCHANGED strings
       ELSE /\ Len(strings) < MaxStore
            /\ strings' = Append(strings, analyzeString(value.s, now))
            /\ res' = [status |-> 201, body |-> analyzeString(value.s, now)]

(***************************************************************************)
(* 2) GET /strings/:string_value                                           *)
(***************************************************************************)
GetString(stringValue) ==
    /\ req' = [op |-> "GET /strings/:string_value", string_value |-> stringValue]
    /\ UNCHANGED <<strings, now>>
    /\ LET found == findByValue(stringValue)
       IN  IF found = 0
           THEN res' = Error(404, "String does not exist in the system")
           ELSE res' = [status |-> 200, body |-> strings[found]]

\* DELETE splicing before it tests idx: splice(-1, 1) removes the last
\* record of the store
DeleteStringSpliceFirst(stringValue) ==
    /\ req' = [op |-> "DELETE /strings/:string_value", string_value |-> stringValue]
    /\ UNCHANGED now
    /\ LET idx == FirstTrue([i \in 1..Len(strings) |->
                                deleteMatches(strings[i], stringValue)])
       IN  IF idx = 0
           THEN /\ res' = Error(404, "String does not exist in the system")
                /\ strings' = SubSeq(strings, 1, Len(strings) - 1)
           ELSE /\ strings' = splice(strings, idx)
                /\ res' = [status |-> 204]

(***************************************************************************)
(* 5) DELETE /strings/:string_value                                        *)
(***************************************************************************)
DeleteString(stringValue) ==
    /\ req' = [op |-> "DELETE /strings/:string_value", string_value |-> stringValue]
    /\ UNCHANGED now
    /\ LET idx == FirstTrue([i \in 1..Len(strings) |->
                                deleteMatches(strings[i], stringValue)])
       IN  IF idx = 0
           THEN /\ res' = Error(404, "String does not exist in the system")
                /\ UNCHANGED strings
           ELSE /\ strings' = splice(strings, idx)
                /\ res' = [status |-> 204]

(***************************************************************************)
(* The clock new Date() reads advances between requests.                   *)
(***************************************************************************)
Tick ==
    /\ now < MaxClock
    /\ now' = now + 1
    /\ req' = NoReq
    /\ res' = NoRes
    /\ UNCHANGED strings

(***************************************************************************)
(* Query parameters.  req.query maps the names the URL gives to their raw  *)
(* values: a string, or an array of strings when the name is repeated.  A  *)
(* raw value is [kind, s], with s the string, or, for an array, String()   *)
(* of the array (its elements joined by commas).  A query is a function    *)
(* whose domain is the set of names the URL gives.                         *)
(***************************************************************************)
Undefined == [kind |-> "undefined", s |-> <<>>]
Str(s)    == [kind |-> "string", s |-> s]
Arr(s)    == [kind |-> "array", s |-> s]

\* const { name } = req.query
param(q, name) == IF name \in DOMAIN q THEN q[name] ELSE Undefined

EmptyObj == [k \in {} |-> 0]

\* obj[k] = v
Put(obj, k, v) == [x \in DOMAIN obj \cup {k} |-> IF x = k THEN v ELSE obj[x]]

\* parseInt(v, 10) of String(v): leading white space is skipped, a sign is
\* read, then the longest run of digits; NaN when that run is empty.
\* Whatever follows the digits is ignored.
parseInt(s) ==
    LET t    == TrimStart(s)
        neg  == Len(t) > 0 /\ t[1] = "-"
        u    == IF Len(t) > 0 /\ t[1] \in {"-", "+"} THEN Tail(t) ELSE t
        k    == DigitPrefixLen(u)
        n    == DigitsValue(SubSeq(u, 1, k))
    IN  IF k = 0 THEN [nan |-> TRUE, n |-> 0]
        ELSE [nan |-> FALSE, n |-> IF neg THEN 0 - n ELSE n]

\* parseIntOrNull: undefined for undefined, null for NaN, else the integer
parseIntOrNull(v) ==
    IF v.kind = "undefined" THEN [kind |-> "undefined", n |-> 0]
    ELSE IF parseInt(v.s).nan THEN [kind |-> "null", n |-> 0]
    ELSE [kind |-> "int", n |-> parseInt(v.s).n]

sTrue  == <<"t", "r", "u", "e">>
sFalse == <<"f", "a", "l", "s", "e">>

\* ['true', 'false'].includes(is_palindrome)
isBoolLiteral(v) == v.kind = "string" /\ v.s \in {sTrue, sFalse}

\* haystack.includes(ch)
includes(haystack, ch) ==
    \E i \in 1..(Len(haystack) + 1 - Len(ch)) :
        SubSeq(haystack, i, i + Len(ch) - 1) = ch

\* a strict comparison in the place of the min_length filter's
atLeastStrict(length, minLen) == length > minLen

\* the comparison of the min_length filter
atLeast(length, minLen) == length >= minLen

\* a strict comparison in the place of the max_length filter's
atMostStrict(length, maxLen) == length < maxLen

\* the comparison of the max_length filter
atMost(length, maxLen) == length <= maxLen

\* filterEngine with the contains_character filter run on the whole store R
\* instead of on the result of the filters before it
filterEngineRestart(R, is_palindrome, minLen, maxLen, wc, contains_character) ==
    LET boolVal == is_palindrome.s = sTrue
        r1 == IF is_palindrome.kind # "undefined"
              THEN SelectSeq(R, LAMBDA item : item.properties.is_palindrome = boolVal)
              ELSE R
        f1 == IF is_palindrome.kind # "undefined"
              THEN Put(EmptyObj, "is_palindrome", boolVal)
              ELSE EmptyObj
        r2 == IF minLen.kind # "undefined"
              THEN SelectSeq(r1, LAMBDA item : atLeast(item.properties.length, minLen.n))
              ELSE r1
        f2 == IF minLen.kind # "undefined" THEN Put(f1, "min_length", minLen.n) ELSE f1
        r3 == IF maxLen.kind # "undefined"
              THEN SelectSeq(r2, LAMBDA item : atMost(item.properties.length, maxLen.n))
              ELSE r2
        f3 == IF maxLen.kind # "undefined" THEN Put(f2, "max_length", maxLen.n) ELSE f2
        r4 == IF wc.kind # "undefined"
              THEN SelectSeq(r3, LAMBDA item : item.properties.word_count = wc.n)
              ELSE r3
        f4 == IF wc.kind # "undefined" THEN Put(f3, "word_count", wc.n) ELSE f3
        ch == toLowerCase(contains_character.s)
        r5 == IF contains_character.kind # "undefined"
              THEN SelectSeq(R, LAMBDA item : includes(toLowerCase(item.value), ch))
              ELSE r4
        f5 == IF contains_character.kind # "undefined"
              THEN Put(f4, "contains_character", ch)
              ELSE f4
    IN  [data |-> r5, count |-> Len(r5), filters_applied |-> f5]

\* The filters of GET /strings, applied one after the other to a copy R of
\* the store: is_palindrome and contains_character are the raw (validated)
\* parameters, minLen, maxLen and wc the results of parseIntOrNull.
filterEngine(R, is_palindrome, minLen, maxLen, wc, contains_character) ==
    LET boolVal == is_palindrome.s = sTrue
        r1 == IF is_palindrome.kind # "undefined"
              THEN SelectSeq(R, LAMBDA item : item.properties.is_palindrome = boolVal)
              ELSE R
        f1 == IF is_palindrome.kind # "undefined"
              THEN Put(EmptyObj, "is_palindrome", boolVal)
              ELSE EmptyObj
        r2 == IF minLen.kind # "undefined"
              THEN SelectSeq(r1, LAMBDA item : atLeast(item.properties.length, minLen.n))
              ELSE r1
        f2 == IF minLen.kind # "undefined" THEN Put(f1, "min_length", minLen.n) ELSE f1
        r3 == IF maxLen.kind # "undefined"
              THEN SelectSeq(r2, LAMBDA item : atMost(item.properties.length, maxLen.n))
              ELSE r2
        f3 == IF maxLen.kind # "undefined" THEN Put(f2, "max_length", maxLen.n) ELSE f2
        r4 == IF wc.kind # "undefined"
              THEN SelectSeq(r3, LAMBDA item : item.properties.word_count = wc.n)
              ELSE r3
        f4 == IF wc.kind # "undefined" THEN Put(f3, "word_count", wc.n) ELSE f3
        ch == toLowerCase(contains_character.s)
        r5 == IF contains_character.kind # "undefined"
              THEN SelectSeq(r4, LAMBDA item : includes(toLowerCase(item.value), ch))
              ELSE r4
        f5 == IF contains_character.kind # "undefined"
              THEN Put(f4, "contains_character", ch)
              ELSE f4
    IN  [data |-> r5, count |-> Len(r5), filters_applied |-> f5]

\* The whole handler of GET /strings as a function of the store and the
\* query: validation first, every check before any filter is applied.
getStrings(R, q) ==
    LET is_palindrome      == param(q, "is_palindrome")
        min_length         == param(q, "min_length")
        max_length         == param(q, "max_length")
        word_count         == param(q, "word_count")
        contains_character == param(q, "contains_character")
        minLen == parseIntOrNull(min_length)
        maxLen == parseIntOrNull(max_length)
        wc     == parseIntOrNull(word_count)
    IN  IF is_palindrome.kind # "undefined" /\ ~isBoolLiteral(is_palindrome)
        THEN Error(400, "is_palindrome must be true or false")
        ELSE IF min_length.kind # "undefined" /\ minLen.kind = "null"
        THEN Error(400, "min_length must be an integer")
        ELSE IF max_length.kind # "undefined" /\ maxLen.kind = "null"
        THEN Error(400, "max_length must be an integer")
        ELSE IF word_count.kind # "undefined" /\ wc.kind = "null"
        THEN Error(400, "word_count must be an integer")
        ELSE IF contains_character.kind # "undefined"
                /\ contains_character.kind # "string"
        THEN Error(400, "contains_character must be a string")
        ELSE IF contains_character.kind # "undefined"
                /\ Len(contains_character.s) # 1
        THEN Error(400, "contains_character must be a single character")
        ELSE [status |-> 200,
              body   |-> filterEngine(R, is_palindrome, minLen, maxLen, wc,
                                      contains_character)]

(***************************************************************************)
(* 3) GET /strings                                                         *)
(***************************************************************************)
GetStrings(q) ==
    /\ req' = [op |-> "GET /strings", query |-> q]
    /\ res' = getStrings(strings, q)
    /\ UNCHANGED <<strings, now>>

(***************************************************************************)
(* Natural-language phrases.  A phrase is the sequence of its words, the   *)
(* query string being the words joined by single spaces; a word is a       *)
(* non-empty string of letters and digits.  Each regular expression of     *)
(* parseNaturalLanguageQuery is given by what it matches on such a string: *)
(* \b holds exactly at the two ends of every word.                         *)
(***************************************************************************)
wLonger == <<"l", "o", "n", "g", "e", "r">>
wThan == <<"t", "h", "a", "n">>
wShorter == <<"s", "h", "o", "r", "t", "e", "r">>
wLess == <<"l", "e", "s", "s">>
wSingle == <<"s", "i", "n", "g", "l", "e">>
wOne == <<"o", "n", "e">>
wWord == <<"w", "o", "r", "d">>
wWords == <<"w", "o", "r", "d", "s">>
wCount == <<"c", "o", "u", "n", "t">>
wIs == <<"i", "s">>
wPalindromic == <<"p", "a", "l", "i", "n", "d", "r", "o", "m", "i", "c">>
wContains == <<"c", "o", "n", "t", "a", "i", "n", "s">>
wContaining == <<"c", "o", "n", "t", "a", "i", "n", "i", "n", "g">>
wContain == <<"c", "o", "n", "t", "a", "i", "n">>
wThe == <<"t", "h", "e">>
wLetter == <<"l", "e", "t", "t", "e", "r">>
wStrings == <<"s", "t", "r", "i", "n", "g", "s">>
wAnd == <<"a", "n", "d">>
wPalindrom == <<"p", "a", "l", "i", "n", "d", "r", "o", "m">>

IsLetter(c) ==
    c \in {"a", "b", "c", "d", "e", "f", "g", "h", "i", "j", "k", "l", "m",
           "n", "o", "p", "q", "r", "s", "t", "u", "v", "w", "x", "y", "z",
           "A", "B", "C", "D", "E", "F", "G", "H", "I", "J", "K", "L", "M",
           "N", "O", "P", "Q", "R", "S", "T", "U", "V", "W", "X", "Y", "Z"}

AllDigits(tok) == Len(tok) > 0 /\ DigitPrefixLen(tok) = Len(tok)

\* /\b(single|one)\b.*\bword\b/.test(s) || /\bword count is 1\b/.test(s)
matchSingleWord(s) ==
    \/ \E i \in 1..Len(s) : \E j \in (i + 1)..Len(s) :
            s[i] \in {wSingle, wOne} /\ s[j] = wWord
    \/ \E i \in 1..(Len(s) - 3) :
            /\ s[i] = wWord /\ s[i + 1] = wCount
            /\ s[i + 2] = wIs /\ s[i + 3] = <<"1">>

\* s.match(/\b(\d+)\s+word(s)?\b/): the index of the word that is group 1
\* of the leftmost match, 0 when there is no match
matchWordCount(s) ==
    FirstTrue([i \in 1..(Len(s) - 1) |->
                    AllDigits(s[i]) /\ s[i + 1] \in {wWord, wWords}])

\* /\bpalindrom\w*\b/.test(s)
matchPalindrome(s) ==
    \E i \in 1..Len(s) :
        Len(s[i]) >= Len(wPalindrom) /\ SubSeq(s[i], 1, Len(wPalindrom)) = wPalindrom

\* s.match(/\blonger than (\d+)/): the index of the word group 1 starts,
\* group 1 being the digits that word begins with
matchLonger(s) ==
    LET i == FirstTrue([k \in 1..(Len(s) - 2) |->
                            /\ s[k] = wLonger /\ s[k + 1] = wThan
                            /\ DigitPrefixLen(s[k + 2]) > 0])
    IN  IF i = 0 THEN 0 ELSE i + 2

\* s.match(/\b(shorter than|less than) (\d+)/): as matchLonger, for group 2
matchShorter(s) ==
    LET i == FirstTrue([k \in 1..(Len(s) - 2) |->
                            /\ s[k] \in {wShorter, wLess} /\ s[k + 1] = wThan
                            /\ DigitPrefixLen(s[k + 2]) > 0])
    IN  IF i = 0 THEN 0 ELSE i + 2

\* group 1 of a match
digitsOf(tok) == SubSeq(tok, 1, DigitPrefixLen(tok))

\* min_length taken to be the number itself
minLengthOfInclusive(digits) == DigitsValue(digits)

\* the value of the min_length the translator derives from group 1
minLengthOf(digits) == DigitsValue(digits) + 1

\* the value of the max_length the translator derives from group 2
maxLengthOf(digits) == DigitsValue(digits) - 1

SingleLetter(tok) == Len(tok) = 1 /\ IsLetter(tok[1])

\* where the single letter stands in a match of the "contains" expression
\* that starts at word k: after the head, an optional "the" and an optional
\* "letter"; 0 when no match starts at k
letterAt(s, k) ==
    IF s[k] \notin {wContain, wContains, wContaining} THEN 0
    ELSE IF k + 1 <= Len(s) /\ SingleLetter(s[k + 1]) THEN k + 1
    ELSE IF k + 2 <= Len(s) /\ s[k + 1] \in {wThe, wLetter} /\ SingleLetter(s[k + 2])
    THEN k + 2
    ELSE IF k + 3 <= Len(s) /\ s[k + 1] = wThe /\ s[k + 2] = wLetter
            /\ SingleLetter(s[k + 3])
    THEN k + 3
    ELSE 0

\* s.match(/\b(?:contain(?:ing|s)?(?: the)?(?: letter)?|containing)\s+([a-zA-Z])\b/):
\* the index of the word that is group 1 of the leftmost match
matchLetter(s) ==
    LET k == FirstTrue([i \in 1..Len(s) |-> letterAt(s, i) # 0])
    IN  IF k = 0 THEN 0 ELSE letterAt(s, k)

\* parseNaturalLanguageQuery: the parsed object; the empty object stands
\* for the null it returns when nothing was parsed
parseNaturalLanguageQuery(q) ==
    LET s  == [i \in 1..Len(q) |-> toLowerCase(q[i])]
        p1 == IF matchSingleWord(s) THEN Put(EmptyObj, "word_count", 1) ELSE EmptyObj
        p2 == IF matchWordCount(s) # 0
              THEN Put(p1, "word_count", DigitsValue(s[matchWordCount(s)]))
              ELSE p1
        p3 == IF matchPalindrome(s) THEN Put(p2, "is_palindrome", TRUE) ELSE p2
        p4 == IF matchLonger(s) # 0
              THEN Put(p3, "min_length", minLengthOf(digitsOf(s[matchLonger(s)])))
              ELSE p3
        p5 == IF matchShorter(s) # 0
              THEN Put(p4, "max_length", maxLengthOf(digitsOf(s[matchShorter(s)])))
              ELSE p4
        p6 == IF matchLetter(s) # 0
              THEN Put(p5, "contains_character", toLowerCase(s[matchLetter(s)]))
              ELSE p5
    IN  p6

\* the filters of the natural-language handler, applied to a copy R of the
\* store
nlFilter(R, parsed_filters) ==
    LET has(k) == k \in DOMAIN parsed_filters
        r1 == IF has("is_palindrome") /\ parsed_filters["is_palindrome"] = TRUE
              THEN SelectSeq(R, LAMBDA item : item.properties.is_palindrome = TRUE)
              ELSE R
        r2 == IF has("word_count")
              THEN SelectSeq(r1, LAMBDA item :
                        item.properties.word_count = parsed_filters["word_count"])
              ELSE r1
        r3 == IF has("min_length")
              THEN SelectSeq(r2, LAMBDA item :
                        item.properties.length >= parsed_filters["min_length"])
              ELSE r2
        r4 == IF has("max_length")
              THEN SelectSeq(r3, LAMBDA item :
                        item.properties.length <= parsed_filters["max_length"])
              ELSE r3
        r5 == IF has("contains_character")
              THEN SelectSeq(r4, LAMBDA item :
                        includes(toLowerCase(item.value),
                                 toLowerCase(parsed_filters["contains_character"])))
              ELSE r4
    IN  r5

\* the natural-language handler without its check for conflicting bounds
filterByNaturalLanguageNoConflict(R, query) ==
    LET parsed_filters == parseNaturalLanguageQuery(query.words)
        interpreted    == [original |-> query.words, parsed_filters |-> parsed_filters]
    IN  IF query.kind = "undefined" \/ Len(query.words) = 0
        THEN Error(400, "Missing query parameter")
        ELSE IF parsed_filters = EmptyObj
        THEN Error(400, "Unable to parse natural language query")
        ELSE [status |-> 200,
              body   |-> [data  |-> nlFilter(R, parsed_filters),
                          count |-> Len(nlFilter(R, parsed_filters)),
                          interpreted_query |-> interpreted]]

\* The whole handler of GET /strings/filter-by-natural-language as a
\* function of the store and of req.query.query ([kind, words]).
filterByNaturalLanguage(R, query) ==
    LET parsed_filters == parseNaturalLanguageQuery(query.words)
        interpreted    == [original |-> query.words, parsed_filters |-> parsed_filters]
    IN  IF query.kind = "undefined" \/ Len(query.words) = 0
        THEN Error(400, "Missing query parameter")
        ELSE IF parsed_filters = EmptyObj
        THEN Error(400, "Unable to parse natural language query")
        ELSE IF /\ "min_length" \in DOMAIN parsed_filters
                /\ "max_length" \in DOMAIN parsed_filters
                /\ parsed_filters["min_length"] > parsed_filters["max_length"]
        THEN [status |-> 422,
              body   |-> [error |-> "Query parsed but resulted in conflicting filters",
                          interpreted_query |-> interpreted]]
        ELSE [status |-> 200,
              body   |-> [data  |-> nlFilter(R, parsed_filters),
                          count |-> Len(nlFilter(R, parsed_filters)),
                          interpreted_query |-> interpreted]]

(***************************************************************************)
(* 4) GET /strings/filter-by-natural-language                              *)
(***************************************************************************)
FilterByNaturalLanguage(query) ==
    /\ req' = [op |-> "GET /strings/filter-by-natural-language", query |-> query]
    /\ res' = filterByNaturalLanguage(strings, query)
    /\ UNCHANGED <<strings, now>>

(***************************************************************************)
(* The requests of the model.                                              *)
(***************************************************************************)
\* all queries that give each name of Names a raw value of its set
QueriesOver(IsPal, MinL, MaxL, Wc, Cc) ==
    LET Opt(S) == S \cup {Undefined}
    IN  { [k \in {n \in {"is_palindrome", "min_length", "max_length",
                         "word_count", "contains_character"} :
                    (CASE n = "is_palindrome"      -> ip
                       [] n = "min_length"         -> mn
                       [] n = "max_length"         -> mx
                       [] n = "word_count"         -> w
                       [] n = "contains_character" -> cc).kind # "undefined"}
            |-> CASE k = "is_palindrome"      -> ip
                  [] k = "min_length"         -> mn
                  [] k = "max_length"         -> mx
                  [] k = "word_count"         -> w
                  [] k = "contains_character" -> cc] :
          <<ip, mn, mx, w, cc>> \in
              Opt(IsPal) \X Opt(MinL) \X Opt(MaxL) \X Opt(Wc) \X Opt(Cc) }

\* the raw values a client sends for each parameter: well-formed ones, and
\* malformed ones of every kind the handler tells apart
IsPalRaw == {Str(sTrue), Str(sFalse), Str(<<"T", "R", "U", "E">>)}
MinRaw   == {Str(<<"3">>), Str(<<"5">>), Str(<<"3", "x">>), Str(<<"x", "3">>)}
MaxRaw   == {Str(<<"2">>), Str(<<"5">>), Str(<<"4", ".", "5">>), Str(<<>>)}
WcRaw    == {Str(<<"1">>), Str(<<"2">>), Str(<<"o", "n", "e">>)}
CcRaw    == {Str(<<"a">>), Str(<<"L">>), Str(<<"a", "b">>), Str(<<>>),
             Arr(<<"a", ",", "b">>)}

AllQueries == QueriesOver(IsPalRaw, MinRaw, MaxRaw, WcRaw, CcRaw)

\* the queries of the specification of the whole service
SomeQueries ==
    QueriesOver({Str(sTrue)}, {Str(<<"3">>), Str(<<"x", "3">>)}, {}, {},
                {Str(<<"L">>), Str(<<"a", "b">>)})

Phrase(words) == [kind |-> "string", words |-> words]
NoPhrase      == [kind |-> "undefined", words |-> <<>>]

\* the phrases of the specification of the whole service
SomePhrases ==
    { NoPhrase, Phrase(<<>>), Phrase(<<wStrings>>),
      Phrase(<<wPalindromic, wStrings>>),
      Phrase(<<wLonger, wThan, <<"3">>>>),
      Phrase(<<wLonger, wThan, <<"1", "0">>, wAnd, wShorter, wThan, <<"5">>>>),
      Phrase(<<wContaining, wThe, wLetter, <<"a">>>>) }

(***************************************************************************)
(* The service: every request is one step.                                 *)
(***************************************************************************)
Init ==
    /\ strings = <<>>
    /\ now = 0
    /\ req = NoReq
    /\ res = NoRes

Next ==
    \/ \E value \in BodyValues : PostStrings(value)
    \/ \E v \in PathValues : GetString(v)
    \/ \E q \in SomeQueries : GetStrings(q)
    \/ \E query \in SomePhrases : FilterByNaturalLanguage(query)
    \/ \E v \in PathValues : DeleteString(v)
    \/ Tick

Spec == Init /\ [][Next]_vars

(***************************************************************************)
(* The filters on their own: a store the service can hold, one request     *)
(* received, and the step that answers it.                                 *)
(***************************************************************************)
\* the stores of at most MaxStore records created before the clock advanced
Stores ==
    UNION { { [i \in 1..n |-> analyzeString(f[i], 0)] :
                f \in {g \in [1..n -> Values] :
                        \A i \in 1..n : \A j \in 1..n : i # j => g[i] # g[j]} } :
            n \in 0..MaxStore }

InitFilter ==
    /\ strings \in Stores
    /\ now = 0
    /\ req \in {[op |-> "GET /strings", query |-> q] : q \in AllQueries}
    /\ res = NoRes

AnswerFilter == res = NoRes /\ GetStrings(req.query)

SpecFilter == InitFilter /\ [][AnswerFilter]_vars

\* the words of a phrase, one choice for each recognizer, in a row
PhrasesOver(Pre, WcP, PalP, LongP, ShortP, ContP) ==
    { Phrase(a \o b \o c \o d \o e \o f) :
        <<a, b, c, d, e, f>> \in Pre \X WcP \X PalP \X LongP \X ShortP \X ContP }

n0  == <<"0">>
n2  == <<"2">>
n3  == <<"3">>
n5  == <<"5">>
n10 == <<"1", "0">>

AllPhrases ==
    PhrasesOver(
        {<<>>, <<wStrings>>},
        {<<>>, <<wSingle, wWord>>, <<n2, wWords>>},
        {<<>>, <<wPalindromic>>},
        {<<>>} \cup {<<wLonger, wThan, n>> : n \in {n0, n2, n10}},
        {<<>>} \cup {<<h, wThan, n>> : h \in {wShorter, wLess}, n \in {n0, n3, n5}},
        {<<>>, <<wContaining, wThe, wLetter, <<"a">>>>, <<wContains, <<"L">>>>})
    \cup
    { NoPhrase,
      \* "Longer Than 2"
      Phrase(<<<<"L", "o", "n", "g", "e", "r">>, <<"T", "h", "a", "n">>, n2>>),
      \* "longer than 2 and longer than 10"
      Phrase(<<wLonger, wThan, n2, wAnd, wLonger, wThan, n10>>),
      \* "less than 3 words"
      Phrase(<<wLess, wThan, n3, wWords>>),
      \* "word count is 1"
      Phrase(<<wWord, wCount, wIs, <<"1">>>>),
      \* "one 2 words"
      Phrase(<<wOne, n2, wWords>>),
      \* "shorter than 3x"
      Phrase(<<wShorter, wThan, <<"3", "x">>>>),
      \* "contain the and"
      Phrase(<<wContain, wThe, wAnd>>) }

InitNL ==
    /\ strings \in Stores
    /\ now = 0
    /\ req \in {[op |-> "GET /strings/filter-by-natural-language", query |-> p] :
                    p \in AllPhrases}
    /\ res = NoRes

AnswerNL == res = NoRes /\ FilterByNaturalLanguage(req.query)

SpecNL == InitNL /\ [][AnswerNL]_vars

(***************************************************************************)
(* Properties of the store.                                                *)
(***************************************************************************)
IsPost   == req.op = "POST /strings"
IsGet    == req.op = "GET /strings/:string_value"
IsDelete == req.op = "DELETE /strings/:string_value"
IsFilter == req.op = "GET /strings"
IsNL     == req.op = "GET /strings/filter-by-natural-language"

\* the values of the records of a store
ValuesOf(R) == {R[i].value : i \in 1..Len(R)}

\* C1: in every reachable state no two records of the store have the same
\* value, compared code unit by code unit (case-sensitively).
C1_UniqueValues ==
    \A i \in 1..Len(strings) : \A j \in 1..Len(strings) :
        i # j => strings[i].value # strings[j].value

\* C1 witness: a creation was just rejected as a duplicate while the store
\* holds two records whose values differ only in case.
C1_Witness ==
    /\ IsPost /\ res.status = 409
    /\ Len(strings) = 2
    /\ strings[1].value # strings[2].value
    /\ toLowerCase(strings[1].value) = toLowerCase(strings[2].value)

\* C2 (the claim as stated): every stored record has a non-empty value; no
\* creation request puts a record with an empty value into the store.
C2_NonEmptyValues ==
    \A i \in 1..Len(strings) : Len(strings[i].value) >= 1

\* C3 (the claim as stated): deletion matches case-insensitively, so a
\* deletion answered NotFound leaves no record whose value equals the
\* requested one up to case (deleting "LEVEL" after inserting "Level"
\* succeeds); duplicate detection matches case-sensitively, so a creation
\* answered Conflict finds the very value in the store.
C3_DeleteFoldsCase ==
    /\ (IsDelete /\ res.status = 404) =>
            \A i \in 1..Len(strings) :
                toLowerCase(strings[i].value) # toLowerCase(req.string_value)
    /\ (IsPost /\ res.status = 409) => req.value.s \in ValuesOf(strings)

\* C4: a creation request for a string already in the store is answered
\* 409 and leaves the store as it was; a creation request for a string not
\* in the store is answered 201 and appends exactly one record, the one
\* returned, to the store.
C4_CreateOrConflict ==
    [][ (req'.op = "POST /strings" /\ req'.value.t = "string") =>
            IF req'.value.s \in ValuesOf(strings)
            THEN res'.status = 409 /\ strings' = strings
            ELSE /\ res'.status = 201
                 /\ res'.body.value = req'.value.s
                 /\ Len(strings') = Len(strings) + 1
                 /\ strings' = Append(strings, res'.body) ]_vars

\* C4 witness: a value was created, deleted and created again, and its
\* second creation in a row has just been answered 409.
C4_Witness ==
    /\ IsPost /\ res.status = 409
    /\ \E i \in 1..Len(strings) :
            strings[i].value = req.value.s /\ strings[i].created_at > 0

\* C5: a request answered 400, 404, 409 or 422, and every read request
\* (exact lookup, structured filter, natural-language filter), leaves the
\* store as it was: the same records in the same order.
C5_ErrorsAndReadsKeepStore ==
    [][ ( \/ res'.status \in {400, 404, 409, 422}
          \/ req'.op \in {"GET /strings/:string_value", "GET /strings",
                          "GET /strings/filter-by-natural-language"} )
        => strings' = strings ]_vars

\* C5 witness: a structured filter has just returned a proper part of a
\* store of two records.
C5_Witness ==
    /\ IsFilter /\ res.status = 200
    /\ Len(strings) = 2 /\ Len(res.body.data) = 1

Answered == res # NoRes

\* a raw value that is a base-10 integer: an optional sign, then digits only
IsBase10Integer(v) ==
    /\ v.kind = "string"
    /\ LET u == IF Len(v.s) > 0 /\ v.s[1] \in {"-", "+"} THEN Tail(v.s) ELSE v.s
       IN  AllDigits(u)

\* the integer a base-10 integer denotes
Base10Value(v) ==
    IF Len(v.s) > 0 /\ v.s[1] = "-" THEN 0 - DigitsValue(Tail(v.s))
    ELSE IF Len(v.s) > 0 /\ v.s[1] = "+" THEN DigitsValue(Tail(v.s))
    ELSE DigitsValue(v.s)

\* the field k of the query q passes the check stated for it
FieldValid(q, k) ==
    CASE k = "is_palindrome"      -> q[k] \in {Str(sTrue), Str(sFalse)}
      [] k = "contains_character" -> q[k].kind = "string" /\ Len(q[k].s) = 1
      [] OTHER                    -> IsBase10Integer(q[k])

QueryValid(q) == \A k \in DOMAIN q : FieldValid(q, k)

\* C7 (the claim as stated): a structured filter request with a provided
\* min_length, max_length or word_count that is no base-10 integer, an
\* is_palindrome that is not exactly "true" or "false", or a
\* contains_character that is not exactly one code unit is answered with
\* a validation error (400) and no collection.
C7_InvalidFieldRejected ==
    (IsFilter /\ Answered /\ ~QueryValid(req.query)) => res.status = 400

\* the record item satisfies every predicate the valid query q provides
Satisfies(item, q) ==
    /\ "is_palindrome" \in DOMAIN q =>
            item.properties.is_palindrome = (q["is_palindrome"].s = sTrue)
    /\ "min_length" \in DOMAIN q =>
            item.properties.length >= Base10Value(q["min_length"])
    /\ "max_length" \in DOMAIN q =>
            item.properties.length <= Base10Value(q["max_length"])
    /\ "word_count" \in DOMAIN q =>
            item.properties.word_count = Base10Value(q["word_count"])
    /\ "contains_character" \in DOMAIN q =>
            \E i \in 1..Len(item.value) :
                LowerChar(item.value[i]) = LowerChar(q["contains_character"].s[1])

\* the provided fields of the valid query q with their normalized values
Normalized(q) ==
    [k \in DOMAIN q |->
        CASE k = "is_palindrome"      -> q[k].s = sTrue
          [] k = "contains_character" -> <<LowerChar(q[k].s[1])>>
          [] OTHER                    -> Base10Value(q[k])]

\* C8: for every store and every valid structured filter set the answer is
\* a collection whose records are the subsequence of the store, in store
\* order, of the records that satisfy all provided predicates together;
\* count is the number of returned records and filters_applied holds the
\* provided fields, and only them, with their normalized values.
C8_FilterIsConjunction ==
    (IsFilter /\ Answered /\ QueryValid(req.query)) =>
        /\ res.status = 200
        /\ res.body.data =
              SelectSeq(strings, LAMBDA item : Satisfies(item, req.query))
        /\ res.body.count = Len(res.body.data)
        /\ res.body.filters_applied = Normalized(req.query)

\* C8 witness: min_length=3&max_length=5&is_palindrome=true over a store
\* holding the palindrome "level" and the non-palindrome "a b" has returned
\* "level" only.
C8_Witness ==
    /\ IsFilter /\ res.status = 200
    /\ req.query = [k \in {"is_palindrome", "min_length", "max_length"} |->
                        CASE k = "is_palindrome" -> Str(sTrue)
                          [] k = "min_length"    -> Str(<<"3">>)
                          [] k = "max_length"    -> Str(<<"5">>)]
    /\ ValuesOf(strings) = {slevel, saSPb}
    /\ ValuesOf(res.body.data) = {slevel}

\* apply(R, f): the records the filter engine returns for the filter set f
apply(R, f) == getStrings(R, f).body.data

\* the filter set f restricted to the fields of D
Restrict(f, D) == [k \in D |-> f[k]]

\* C9: the filter engine is the identity on the empty filter set, and for
\* every split of an accepted filter set into two filter sets f1, f2 over
\* disjoint fields, apply(apply(R, f1), f2) is the answer apply(R, f1 \cup f2)
\* the handler gave.
C9_IdentityAndComposition ==
    (IsFilter /\ Answered /\ res.status = 200) =>
        /\ DOMAIN req.query = {} => res.body.data = strings
        /\ \A D \in SUBSET DOMAIN req.query :
              apply(apply(strings, Restrict(req.query, D)),
                    Restrict(req.query, DOMAIN req.query \ D)) = res.body.data

\* C9 witness: an answer to a filter set of two fields that differs from
\* what either field alone selects.
C9_Witness ==
    /\ IsFilter /\ res.status = 200
    /\ Cardinality(DOMAIN req.query) = 2
    /\ \A k \in DOMAIN req.query :
            apply(strings, Restrict(req.query, {k})) # res.body.data

(***************************************************************************)
(* Properties of the natural-language translator.                          *)
(***************************************************************************)
\* the lowercased words of a phrase
LowerWords(q) == [i \in 1..Len(q) |-> toLowerCase(q[i])]

\* at word i of s stands "<head> than N", N a number
BoundAt(s, heads, i) ==
    /\ i + 2 <= Len(s)
    /\ s[i] \in heads /\ s[i + 1] = wThan
    /\ DigitPrefixLen(s[i + 2]) > 0

HasBound(s, heads) == \E i \in 1..Len(s) : BoundAt(s, heads, i)

\* the number N of the first "<head> than N" of s
BoundOf(s, heads) ==
    LET i == CHOOSE k \in 1..Len(s) :
                BoundAt(s, heads, k) /\ \A j \in 1..(k - 1) : ~BoundAt(s, heads, j)
    IN  DigitsValue(SubSeq(s[i + 2], 1, DigitPrefixLen(s[i + 2])))

\* the object obj without its key k
Without(obj, k) == [x \in DOMAIN obj \ {k} |-> obj[x]]

\* C10: a phrase with "longer than N" yields min_length = N + 1, a phrase
\* with "shorter than N" or "less than N" yields max_length = N - 1, for
\* every N >= 0 and whatever other recognizers fire on the phrase (N is the
\* number of the first such bound of the phrase); the records of a returned
\* collection are then exactly the records with length > N, respectively
\* length < N, among those the other derived filters let through.
C10_StrictBounds ==
    (IsNL /\ Answered /\ req.query.kind = "string") =>
        LET s == LowerWords(req.query.words)
            parsed == res.body.interpreted_query.parsed_filters
        IN  /\ HasBound(s, {wLonger}) =>
                /\ res.status \in {200, 422}
                /\ "min_length" \in DOMAIN parsed
                /\ parsed["min_length"] = BoundOf(s, {wLonger}) + 1
                /\ res.status = 200 =>
                     res.body.data =
                        SelectSeq(nlFilter(strings, Without(parsed, "min_length")),
                                  LAMBDA item :
                                    item.properties.length > BoundOf(s, {wLonger}))
            /\ HasBound(s, {wShorter, wLess}) =>
                /\ res.status \in {200, 422}
                /\ "max_length" \in DOMAIN parsed
                /\ parsed["max_length"] = BoundOf(s, {wShorter, wLess}) - 1
                /\ res.status = 200 =>
                     res.body.data =
                        SelectSeq(nlFilter(strings, Without(parsed, "max_length")),
                                  LAMBDA item :
                                    item.properties.length < BoundOf(s, {wShorter, wLess}))

\* C10 witness: "longer than 2", the only recognizer to fire, has returned
\* the record of length 3 and not the record of length 2.
C10_Witness ==
    /\ IsNL /\ res.status = 200
    /\ DOMAIN res.body.interpreted_query.parsed_filters = {"min_length"}
    /\ res.body.interpreted_query.parsed_filters["min_length"] = 3
    /\ ValuesOf(strings) = {sab, saSPb}
    /\ ValuesOf(res.body.data) = {saSPb}

\* some recognizer fires on the lowercased words s
SomeRecognizerFires(s) ==
    \/ matchSingleWord(s) \/ matchWordCount(s) # 0
    \/ matchPalindrome(s)
    \/ HasBound(s, {wLonger}) \/ HasBound(s, {wShorter, wLess})
    \/ matchLetter(s) # 0

\* both bounds are derived from s, and the minimum exceeds the maximum
BoundsConflict(s) ==
    /\ HasBound(s, {wLonger}) /\ HasBound(s, {wShorter, wLess})
    /\ BoundOf(s, {wLonger}) + 1 > BoundOf(s, {wShorter, wLess}) - 1

\* C11: the outcome of a natural-language request is decided by the phrase
\* alone, whatever the store holds: 400 exactly when no recognizer fires,
\* 422 (with the derived filter set and no data) exactly when both bounds
\* are derived and min_length > max_length, and otherwise 200 with the
\* derived filter set and the data, be it empty.
C11_ThreeOutcomes ==
    (IsNL /\ Answered) =>
        LET s == LowerWords(req.query.words)
        IN  /\ res.status \in {200, 400, 422}
            /\ res.status = 400 <=> ~SomeRecognizerFires(s)
            /\ res.status = 422 <=> BoundsConflict(s)
            /\ res.status = 422 =>
                /\ "data" \notin DOMAIN res.body
                /\ res.body.interpreted_query.parsed_filters = parseNaturalLanguageQuery(s)
            /\ res.status = 200 =>
                /\ res.body.interpreted_query.parsed_filters = parseNaturalLanguageQuery(s)
                /\ res.body.count = Len(res.body.data)

\* C11 witness: a phrase was parsed and answered 200 with no record, over
\* a store that holds records.
C11_Witness ==
    /\ IsNL /\ res.status = 200
    /\ Len(strings) = 2 /\ res.body.data = <<>>

(***************************************************************************)
(* The two filter handlers compared.                                       *)
(***************************************************************************)
DigitChar(d) ==
    CASE d = 0 -> "0" [] d = 1 -> "1" [] d = 2 -> "2" [] d = 3 -> "3"
      [] d = 4 -> "4" [] d = 5 -> "5" [] d = 6 -> "6" [] d = 7 -> "7"
      [] d = 8 -> "8" [] d = 9 -> "9"

\* the decimal digits of a natural number
RECURSIVE NatString(_)
NatString(n) ==
    IF n < 10 THEN <<DigitChar(n)>>
    ELSE NatString(n \div 10) \o <<DigitChar(n % 10)>>

\* the decimal notation of an integer
IntString(n) == IF n < 0 THEN <<"-">> \o NatString(0 - n) ELSE NatString(n)

\* the query parameters that encode the filter set F
Encode(F) ==
    [k \in DOMAIN F |->
        CASE k = "is_palindrome"      -> Str(IF F[k] THEN sTrue ELSE sFalse)
          [] k = "contains_character" -> Str(F[k])
          [] OTHER                    -> Str(IntString(F[k]))]

\* C12: for every store and every phrase that translates to a filter set F
\* without conflict, the structured handler accepts the query parameters
\* that encode F and returns the records the natural-language handler
\* returned for the phrase, in the same order.
C12_HandlersAgree ==
    (IsNL /\ Answered /\ res.status = 200) =>
        LET F == res.body.interpreted_query.parsed_filters
        IN  /\ getStrings(strings, Encode(F)).status = 200
            /\ getStrings(strings, Encode(F)).body.data = res.body.data

\* C12 witness: a phrase translated to three filters or more, one of them a
\* maximum length, has selected one of two stored records.
C12_Witness ==
    /\ IsNL /\ res.status = 200
    /\ Cardinality(DOMAIN res.body.interpreted_query.parsed_filters) >= 3
    /\ "max_length" \in DOMAIN res.body.interpreted_query.parsed_filters
    /\ Len(strings) = 2 /\ Len(res.body.data) = 1

(***************************************************************************)
(* Properties of deletion.                                                 *)
(***************************************************************************)
\* the positions of the records of R whose value is v
Matching(R, v) == {i \in 1..Len(R) : R[i].value = v}

\* the least element of a non-empty set of numbers
Least(S) == CHOOSE i \in S : \A j \in S : i <= j

====
